---- MODULE Spec2Model ----
(***************************************************************************)
(* Model of src/structures/GuildAuditLogs.js: the batch container          *)
(* GuildAuditLogs (constructor, build, targetType, actionType) and the     *)
(* entry resolver GuildAuditLogsEntry; and of Util.splitMessage of         *)
(* src/util/Util.js.                                                       *)
(*                                                                         *)
(* JavaScript values are tagged records; the tag is the field t and every  *)
(* tag has its own payload field, so that values of different JavaScript   *)
(* types are always comparable.                                            *)
(***************************************************************************)
EXTENDS Integers, Sequences, FiniteSets, TLC

VARIABLES users, guilds, channels, clientChannels, roles, members, emojis,
          data, logs, made, pc, pending, classified, splitCall

vars == <<users, guilds, channels, clientChannels, roles, members, emojis,
          data, logs, made, pc, pending, classified, splitCall>>

caches == <<users, guilds, channels, clientChannels, roles, members, emojis>>

(***************************************************************************)
(* JavaScript values                                                       *)
(***************************************************************************)
Undefined == [t |-> "undefined"]
Null == [t |-> "null"]
NaN == [t |-> "NaN"]
Str(s) == [t |-> "string", s |-> s]
Num(n) == [t |-> "number", n |-> n]
Bool(b) == [t |-> "boolean", b |-> b]
\* a plain object literal; fields is a function from property names to values
Obj(f) == [t |-> "object", fields |-> f]
\* an array
Arr(seq) == [t |-> "array", items |-> seq]
\* an instance of one of the entity classes; origin tells the allocation apart:
\* "cache" for an object of a long-lived cache, "batch" for one allocated by the
\* GuildAuditLogs constructor, "entry" for one allocated while resolving an entry
Entity(class, origin, f) == [t |-> "entity", class |-> class, origin |-> origin, fields |-> f]

\* ToBoolean
Truthy(v) ==
  CASE v.t = "undefined" -> FALSE
    [] v.t = "null" -> FALSE
    [] v.t = "NaN" -> FALSE
    [] v.t = "string" -> v.s # ""
    [] v.t = "number" -> v.n # 0
    [] v.t = "boolean" -> v.b
    [] OTHER -> TRUE

\* a || b
Or(a, b) == IF Truthy(a) THEN a ELSE b

\* o.k for an object that is neither null nor undefined
Prop(o, k) == IF k \in DOMAIN o.fields THEN o.fields[k] ELSE Undefined

\* o[k] = v
SetProp(f, k, v) == [x \in (DOMAIN f) \cup {k} |-> IF x = k THEN v ELSE f[x]]

Nullish(v) == v.t \in {"undefined", "null"}

MaxCount == 12

Digits == <<"0", "1", "2", "3", "4", "5", "6", "7", "8", "9">>

RECURSIVE Decimal(_)
Decimal(n) == IF n < 10 THEN Digits[n + 1] ELSE Decimal(n \div 10) \o Digits[(n % 10) + 1]

\* Number(s) of a string: the empty string is 0, a canonical decimal numeral of
\* at most MaxCount is its value, any other string of the model is NaN
StringToNumber(s) ==
  IF s = "" THEN Num(0)
  ELSE IF \E n \in 0..MaxCount : Decimal(n) = s
       THEN Num(CHOOSE n \in 0..MaxCount : Decimal(n) = s)
       ELSE NaN

\* Number(v), and the ToNumber of a relational comparison
ToNumber(v) ==
  CASE v.t = "number" -> v
    [] v.t = "null" -> Num(0)
    [] v.t = "boolean" -> Num(IF v.b THEN 1 ELSE 0)
    [] v.t = "string" -> StringToNumber(v.s)
    [] OTHER -> NaN

\* v < k for a numeric literal k
LessThan(v, k) == LET n == ToNumber(v) IN n.t = "number" /\ n.n < k

(***************************************************************************)
(* Collection (a Map): a sequence of key/value pairs in insertion order    *)
(***************************************************************************)
CollectionHas(c, k) == \E i \in 1..Len(c) : c[i].key = k

CollectionGet(c, k) ==
  IF CollectionHas(c, k)
  THEN c[CHOOSE i \in 1..Len(c) : c[i].key = k].value
  ELSE Undefined

\* Map.prototype.set: a key already present keeps its place and gets the value
CollectionSet(c, k, v) ==
  IF CollectionHas(c, k)
  THEN [c EXCEPT ![CHOOSE i \in 1..Len(c) : c[i].key = k] = [key |-> k, value |-> v]]
  ELSE Append(c, [key |-> k, value |-> v])

CollectionKeys(c) == [i \in 1..Len(c) |-> c[i].key]

CollectionValues(c) == [i \in 1..Len(c) |-> c[i].value]

(***************************************************************************)
(* The tables                                                              *)
(***************************************************************************)
Targets ==
  [ALL |-> Str("ALL"), GUILD |-> Str("GUILD"), CHANNEL |-> Str("CHANNEL"),
   USER |-> Str("USER"), ROLE |-> Str("ROLE"), INVITE |-> Str("INVITE"),
   WEBHOOK |-> Str("WEBHOOK"), EMOJI |-> Str("EMOJI"), MESSAGE |-> Str("MESSAGE"),
   INTEGRATION |-> Str("INTEGRATION"), UNKNOWN |-> Str("UNKNOWN")]

Actions ==
  [ALL |-> Null,
   GUILD_UPDATE |-> Num(1),
   CHANNEL_CREATE |-> Num(10),
   CHANNEL_UPDATE |-> Num(11),
   CHANNEL_DELETE |-> Num(12),
   CHANNEL_OVERWRITE_CREATE |-> Num(13),
   CHANNEL_OVERWRITE_UPDATE |-> Num(14),
   CHANNEL_OVERWRITE_DELETE |-> Num(15),
   MEMBER_KICK |-> Num(20),
   MEMBER_PRUNE |-> Num(21),
   MEMBER_BAN_ADD |-> Num(22),
   MEMBER_BAN_REMOVE |-> Num(23),
   MEMBER_UPDATE |-> Num(24),
   MEMBER_ROLE_UPDATE |-> Num(25),
   MEMBER_MOVE |-> Num(26),
   MEMBER_DISCONNECT |-> Num(27),
   BOT_ADD |-> Num(28),
   ROLE_CREATE |-> Num(30),
   ROLE_UPDATE |-> Num(31),
   ROLE_DELETE |-> Num(32),
   INVITE_CREATE |-> Num(40),
   INVITE_UPDATE |-> Num(41),
   INVITE_DELETE |-> Num(42),
   WEBHOOK_CREATE |-> Num(50),
   WEBHOOK_UPDATE |-> Num(51),
   WEBHOOK_DELETE |-> Num(52),
   EMOJI_CREATE |-> Num(60),
   EMOJI_UPDATE |-> Num(61),
   EMOJI_DELETE |-> Num(62),
   MESSAGE_DELETE |-> Num(72),
   MESSAGE_BULK_DELETE |-> Num(73),
   MESSAGE_PIN |-> Num(74),
   MESSAGE_UNPIN |-> Num(75),
   INTEGRATION_CREATE |-> Num(80),
   INTEGRATION_UPDATE |-> Num(81),
   INTEGRATION_DELETE |-> Num(82)]

\* Object.keys(Actions), in the order of the literal
ActionKeys ==
  <<"ALL", "GUILD_UPDATE", "CHANNEL_CREATE", "CHANNEL_UPDATE", "CHANNEL_DELETE",
    "CHANNEL_OVERWRITE_CREATE", "CHANNEL_OVERWRITE_UPDATE", "CHANNEL_OVERWRITE_DELETE",
    "MEMBER_KICK", "MEMBER_PRUNE", "MEMBER_BAN_ADD", "MEMBER_BAN_REMOVE",
    "MEMBER_UPDATE", "MEMBER_ROLE_UPDATE", "MEMBER_MOVE", "MEMBER_DISCONNECT",
    "BOT_ADD", "ROLE_CREATE", "ROLE_UPDATE", "ROLE_DELETE", "INVITE_CREATE",
    "INVITE_UPDATE", "INVITE_DELETE", "WEBHOOK_CREATE", "WEBHOOK_UPDATE",
    "WEBHOOK_DELETE", "EMOJI_CREATE", "EMOJI_UPDATE", "EMOJI_DELETE",
    "MESSAGE_DELETE", "MESSAGE_BULK_DELETE", "MESSAGE_PIN", "MESSAGE_UNPIN",
    "INTEGRATION_CREATE", "INTEGRATION_UPDATE", "INTEGRATION_DELETE">>

(***************************************************************************)
(* GuildAuditLogs.targetType and GuildAuditLogs.actionType                 *)
(***************************************************************************)
\* a variant of targetType whose first range takes 10 as well (target <= 10)
targetTypeInclusive(target) ==
  IF LessThan(target, 11) THEN Targets.GUILD
  ELSE IF LessThan(target, 20) THEN Targets.CHANNEL
  ELSE IF LessThan(target, 30) THEN Targets.USER
  ELSE IF LessThan(target, 40) THEN Targets.ROLE
  ELSE IF LessThan(target, 50) THEN Targets.INVITE
  ELSE IF LessThan(target, 60) THEN Targets.WEBHOOK
  ELSE IF LessThan(target, 70) THEN Targets.EMOJI
  ELSE IF LessThan(target, 80) THEN Targets.MESSAGE
  ELSE IF LessThan(target, 90) THEN Targets.INTEGRATION
  ELSE Null

targetType(target) ==
  IF LessThan(target, 10) THEN Targets.GUILD
  ELSE IF LessThan(target, 20) THEN Targets.CHANNEL
  ELSE IF LessThan(target, 30) THEN Targets.USER
  ELSE IF LessThan(target, 40) THEN Targets.ROLE
  ELSE IF LessThan(target, 50) THEN Targets.INVITE
  ELSE IF LessThan(target, 60) THEN Targets.WEBHOOK
  ELSE IF LessThan(target, 70) THEN Targets.EMOJI
  ELSE IF LessThan(target, 80) THEN Targets.MESSAGE
  ELSE IF LessThan(target, 90) THEN Targets.INTEGRATION
  ELSE Null

CreateActions ==
  <<Actions.CHANNEL_CREATE, Actions.CHANNEL_OVERWRITE_CREATE, Actions.MEMBER_BAN_REMOVE,
    Actions.BOT_ADD, Actions.ROLE_CREATE, Actions.INVITE_CREATE, Actions.WEBHOOK_CREATE,
    Actions.EMOJI_CREATE, Actions.MESSAGE_PIN, Actions.INTEGRATION_CREATE>>

DeleteActions ==
  <<Actions.CHANNEL_DELETE, Actions.CHANNEL_OVERWRITE_DELETE, Actions.MEMBER_KICK,
    Actions.MEMBER_PRUNE, Actions.MEMBER_BAN_ADD, Actions.MEMBER_DISCONNECT,
    Actions.ROLE_DELETE, Actions.INVITE_DELETE, Actions.WEBHOOK_DELETE,
    Actions.EMOJI_DELETE, Actions.MESSAGE_DELETE, Actions.MESSAGE_BULK_DELETE,
    Actions.MESSAGE_UNPIN, Actions.INTEGRATION_DELETE>>

UpdateActions ==
  <<Actions.GUILD_UPDATE, Actions.CHANNEL_UPDATE, Actions.CHANNEL_OVERWRITE_UPDATE,
    Actions.MEMBER_UPDATE, Actions.MEMBER_ROLE_UPDATE, Actions.MEMBER_MOVE,
    Actions.ROLE_UPDATE, Actions.INVITE_UPDATE, Actions.WEBHOOK_UPDATE,
    Actions.EMOJI_UPDATE, Actions.INTEGRATION_UPDATE>>

\* Array.prototype.includes
Includes(arr, v) == \E i \in 1..Len(arr) : arr[i] = v

\* a variant of actionType whose UPDATE list lacks its first code, GUILD_UPDATE
actionTypeNoGuildUpdate(action) ==
  IF Includes(CreateActions, action) THEN Str("CREATE")
  ELSE IF Includes(DeleteActions, action) THEN Str("DELETE")
  ELSE IF Includes(Tail(UpdateActions), action) THEN Str("UPDATE")
  ELSE Str("ALL")

actionType(action) ==
  IF Includes(CreateActions, action) THEN Str("CREATE")
  ELSE IF Includes(DeleteActions, action) THEN Str("DELETE")
  ELSE IF Includes(UpdateActions, action) THEN Str("UPDATE")
  ELSE Str("ALL")

(***************************************************************************)
(* GuildAuditLogsEntry                                                     *)
(***************************************************************************)
\* the outcome of a computation: a value, or a thrown TypeError
Ok(v) == [ok |-> TRUE, value |-> v]

Throw == [ok |-> FALSE, value |-> Undefined]

\* Object.keys(Actions).find(k => Actions[k] === action_type)
ActionName(action) ==
  IF \E i \in 1..Len(ActionKeys) : Actions[ActionKeys[i]] = action
  THEN LET first == CHOOSE i \in 1..Len(ActionKeys) :
                      /\ Actions[ActionKeys[i]] = action
                      /\ \A j \in 1..(i - 1) : Actions[ActionKeys[j]] # action
       IN Str(ActionKeys[first])
  ELSE Undefined

\* a variant of MapChanges that tests the length of the list as well
MapChangesEmptyNull(rawChanges) ==
  IF Truthy(rawChanges) /\ rawChanges.items # <<>>
  THEN Arr([i \in 1..Len(rawChanges.items) |->
             [key |-> rawChanges.items[i].key,
              old |-> rawChanges.items[i].old_value,
              new |-> rawChanges.items[i].new_value]])
  ELSE Null

\* data.changes ? data.changes.map(c => ({ key, old: c.old_value, new: c.new_value })) : null
MapChanges(rawChanges) ==
  IF Truthy(rawChanges)
  THEN Arr([i \in 1..Len(rawChanges.items) |->
             [key |-> rawChanges.items[i].key,
              old |-> rawChanges.items[i].old_value,
              new |-> rawChanges.items[i].new_value]])
  ELSE Null

\* changes.reduce((o, c) => { o[c.key] = c.new || c.old; return o; }, o)
RECURSIVE Reduce(_, _)
Reduce(changes, o) ==
  IF changes = <<>> THEN o
  ELSE Reduce(Tail(changes), SetProp(o, Head(changes).key, Or(Head(changes).new, Head(changes).old)))

\* the switch on data.action_type that sets this.extra
ExtraOf(g, d) ==
  LET a == d.action_type
      o == d.options
  IN
  IF a = Actions.MEMBER_PRUNE THEN
    IF Nullish(o) THEN Throw
    ELSE Ok(Obj([removed |-> ToNumber(Prop(o, "members_removed")),
                 days |-> ToNumber(Prop(o, "delete_member_days"))]))
  ELSE IF a \in {Actions.MEMBER_MOVE, Actions.MESSAGE_DELETE, Actions.MESSAGE_BULK_DELETE} THEN
    IF Nullish(o) THEN Throw
    ELSE Ok(Obj([channel |-> Or(CollectionGet(g.channels, Prop(o, "channel_id")),
                                Obj([id |-> Prop(o, "channel_id")])),
                 count |-> ToNumber(Prop(o, "count"))]))
  ELSE IF a \in {Actions.MESSAGE_PIN, Actions.MESSAGE_UNPIN} THEN
    IF Nullish(o) THEN Throw
    ELSE Ok(Obj([channel |-> Or(CollectionGet(g.client.channels, Prop(o, "channel_id")),
                                Obj([id |-> Prop(o, "channel_id")])),
                 messageID |-> Prop(o, "message_id")]))
  ELSE IF a = Actions.MEMBER_DISCONNECT THEN
    IF Nullish(o) THEN Throw
    ELSE Ok(Obj([count |-> ToNumber(Prop(o, "count"))]))
  ELSE IF a \in {Actions.CHANNEL_OVERWRITE_CREATE, Actions.CHANNEL_OVERWRITE_UPDATE,
                 Actions.CHANNEL_OVERWRITE_DELETE} THEN
    IF Nullish(o) THEN Throw
    ELSE IF Prop(o, "type") = Str("member") THEN
      Ok(Or(CollectionGet(g.members, Prop(o, "id")),
            Obj([id |-> Prop(o, "id"), type |-> Str("member")])))
    ELSE IF Prop(o, "type") = Str("role") THEN
      Ok(Or(CollectionGet(g.roles, Prop(o, "id")),
            Obj([id |-> Prop(o, "id"), name |-> Prop(o, "role_name"), type |-> Str("role")])))
    ELSE Ok(Null)
  ELSE Ok(Null)

\* new Webhook(client, data)
Webhook(origin, hook) == Entity("Webhook", origin, hook.fields)

\* new Integration(client, data, guild)
Integration(origin, integration, g) ==
  Entity("Integration", origin, SetProp(integration.fields, "guild", g.self))

\* new Invite(client, data)
Invite(origin, invite) == Entity("Invite", origin, invite.fields)

\* String.prototype.toLowerCase on the names of Targets
ToLowerCase(s) ==
  CASE s = "ALL" -> "all"
    [] s = "GUILD" -> "guild"
    [] s = "CHANNEL" -> "channel"
    [] s = "USER" -> "user"
    [] s = "ROLE" -> "role"
    [] s = "INVITE" -> "invite"
    [] s = "WEBHOOK" -> "webhook"
    [] s = "EMOJI" -> "emoji"
    [] s = "MESSAGE" -> "message"
    [] s = "INTEGRATION" -> "integration"
    [] s = "UNKNOWN" -> "unknown"

\* guild[name]: the collections a guild carries, undefined for any other name
GuildProp(g, name) ==
  CASE name = "channels" -> Ok(g.channels)
    [] name = "roles" -> Ok(g.roles)
    [] name = "emojis" -> Ok(g.emojis)
    [] name = "members" -> Ok(g.members)
    [] OTHER -> Throw

\* a variant of WebhookTarget whose synthesized data starts without guild_id
WebhookTargetNoGuild(batch, g, d, changes) ==
  IF Truthy(CollectionGet(batch.webhooks, d.target_id))
  THEN Ok(CollectionGet(batch.webhooks, d.target_id))
  ELSE IF Nullish(changes) THEN Throw
  ELSE Ok(Webhook("entry", Obj(Reduce(changes.items, [id |-> d.target_id]))))

\* logs.webhooks.get(target_id) || new Webhook(client, changes.reduce(..., { id, guild_id }))
WebhookTarget(batch, g, d, changes) ==
  IF Truthy(CollectionGet(batch.webhooks, d.target_id))
  THEN Ok(CollectionGet(batch.webhooks, d.target_id))
  ELSE IF Nullish(changes) THEN Throw
  ELSE Ok(Webhook("entry", Obj(Reduce(changes.items,
                                      [id |-> d.target_id, guild_id |-> g.id]))))

\* new Invite(client, changes) over the flattened changes, with channel set from channel_id
InviteTarget(g, d, changes) ==
  IF Nullish(changes) THEN Throw
  ELSE LET flat == Reduce(changes.items, [id |-> d.target_id, guild |-> g.self])
       IN Ok(Invite("entry",
                    Obj(SetProp(flat, "channel", Obj([id |-> Prop(Obj(flat), "channel_id")])))))

\* a variant of MessageTarget without the MESSAGE_BULK_DELETE case
MessageTargetAlwaysUser(g, d) == Ok(CollectionGet(g.client.users, d.target_id))

\* Discord sends a channel id for the MESSAGE_BULK_DELETE action type
MessageTarget(g, d) ==
  IF d.action_type = Actions.MESSAGE_BULK_DELETE
  THEN Ok(Or(CollectionGet(g.channels, d.target_id), Obj([id |-> d.target_id])))
  ELSE Ok(CollectionGet(g.client.users, d.target_id))

\* logs.integrations.get(target_id) || new Integration(client, changes.reduce(..., { id }), guild)
IntegrationTarget(batch, g, d, changes) ==
  IF Truthy(CollectionGet(batch.integrations, d.target_id))
  THEN Ok(CollectionGet(batch.integrations, d.target_id))
  ELSE IF Nullish(changes) THEN Throw
  ELSE Ok(Integration("entry", Obj(Reduce(changes.items, [id |-> d.target_id])), g))

\* a variant of GenericTarget without the { id } fallback
GenericTargetNoFallback(g, d, tt) ==
  IF Nullish(tt) THEN Throw
  ELSE LET coll == GuildProp(g, ToLowerCase(tt.s) \o "s")
       IN IF ~coll.ok THEN Throw
          ELSE Ok(CollectionGet(coll.value, d.target_id))

\* guild[`${targetType.toLowerCase()}s`].get(target_id) || { id: target_id }
GenericTarget(g, d, tt) ==
  IF Nullish(tt) THEN Throw
  ELSE LET coll == GuildProp(g, ToLowerCase(tt.s) \o "s")
       IN IF ~coll.ok THEN Throw
          ELSE Ok(Or(CollectionGet(coll.value, d.target_id), Obj([id |-> d.target_id])))

\* the if/else chain that sets this.target
TargetOf(batch, g, d, tt, changes) ==
  IF tt = Targets.UNKNOWN THEN
    \* this.target is still null when its id is assigned
    Throw
  ELSE IF tt = Targets.USER /\ Truthy(d.target_id) THEN
    Ok(CollectionGet(g.client.users, d.target_id))
  ELSE IF tt = Targets.GUILD THEN
    Ok(CollectionGet(g.client.guilds, d.target_id))
  ELSE IF tt = Targets.WEBHOOK THEN WebhookTarget(batch, g, d, changes)
  ELSE IF tt = Targets.INVITE THEN InviteTarget(g, d, changes)
  ELSE IF tt = Targets.MESSAGE THEN MessageTarget(g, d)
  ELSE IF tt = Targets.INTEGRATION THEN IntegrationTarget(batch, g, d, changes)
  ELSE IF Truthy(d.target_id) THEN GenericTarget(g, d, tt)
  ELSE Ok(Null)

\* new GuildAuditLogsEntry(logs, guild, data)
GuildAuditLogsEntry(batch, g, d) ==
  LET tt == targetType(d.action_type)
      changes == MapChanges(d.changes)
      extra == ExtraOf(g, d)
      target == TargetOf(batch, g, d, tt, changes)
  IN IF ~extra.ok \/ ~target.ok THEN Throw
     ELSE Ok([targetType |-> tt,
              actionType |-> actionType(d.action_type),
              action |-> ActionName(d.action_type),
              reason |-> Or(d.reason, Null),
              executor |-> CollectionGet(g.client.users, d.user_id),
              changes |-> changes,
              id |-> d.id,
              extra |-> extra.value,
              target |-> target.value])

(***************************************************************************)
(* GuildAuditLogs: the constructor                                         *)
(***************************************************************************)
GuildId == Str("A")

\* the guild handed to the constructor, over the caches as they are now
GuildContext(us) ==
  [id |-> GuildId,
   self |-> Entity("Guild", "cache", [id |-> GuildId]),
   channels |-> channels,
   roles |-> roles,
   members |-> members,
   emojis |-> emojis,
   client |-> [users |-> us, guilds |-> guilds, channels |-> clientChannels]]

\* client.dataManager.newUser(user): the cached user if there is one, else a new one
NewUser(us, user) ==
  IF CollectionHas(us, Prop(user, "id")) THEN us
  ELSE CollectionSet(us, Prop(user, "id"), Entity("User", "newUser", user.fields))

\* for (const user of data.users) newUser(user)
RECURSIVE NewUsers(_, _)
NewUsers(us, list) ==
  IF list = <<>> THEN us ELSE NewUsers(NewUser(us, Head(list)), Tail(list))

\* for (const hook of data.webhooks) this.webhooks.set(hook.id, new Webhook(client, hook))
RECURSIVE WebhooksOf(_, _)
WebhooksOf(list, acc) ==
  IF list = <<>> THEN acc
  ELSE WebhooksOf(Tail(list),
                  CollectionSet(acc, Prop(Head(list), "id"), Webhook("batch", Head(list))))

\* for (const integration of data.integrations) this.integrations.set(...)
RECURSIVE IntegrationsOf(_, _, _)
IntegrationsOf(list, acc, g) ==
  IF list = <<>> THEN acc
  ELSE IntegrationsOf(Tail(list),
                      CollectionSet(acc, Prop(Head(list), "id"),
                                    Integration("batch", Head(list), g)),
                      g)

\* a variant of LogsAfterEntry that stores a synthesized webhook in logs.webhooks
LogsAfterEntryCaching(batch, d, entry) ==
  IF entry.target.t = "entity" /\ entry.target.origin = "entry"
     /\ entry.target.class = "Webhook"
  THEN [batch EXCEPT !.webhooks = CollectionSet(@, d.target_id, entry.target)]
  ELSE batch

\* what the entry constructor leaves of the logs it was handed: it only reads
\* logs.webhooks and logs.integrations
LogsAfterEntry(batch, d, entry) == batch

\* a variant of EntriesOf that keys the entries by the target_id of the record
RECURSIVE EntriesOfKeyedByTarget(_, _, _, _)
EntriesOfKeyedByTarget(batch, g, items, done) ==
  IF items = <<>> THEN [ok |-> TRUE, logs |-> batch, made |-> done]
  ELSE LET r == GuildAuditLogsEntry(batch, g, Head(items))
       IN IF ~r.ok THEN [ok |-> FALSE, logs |-> batch, made |-> done]
          ELSE EntriesOfKeyedByTarget(
                 [batch EXCEPT !.entries = CollectionSet(@, Head(items).target_id, r.value)],
                 g, Tail(items), Append(done, r.value))

\* for (const item of data.audit_log_entries) this.entries.set(entry.id, entry);
\* made lists the entries in the order their constructor returned
RECURSIVE EntriesOf(_, _, _, _)
EntriesOf(batch, g, items, done) ==
  IF items = <<>> THEN [ok |-> TRUE, logs |-> batch, made |-> done]
  ELSE LET r == GuildAuditLogsEntry(batch, g, Head(items))
       IN IF ~r.ok THEN [ok |-> FALSE, logs |-> batch, made |-> done]
          ELSE EntriesOf([LogsAfterEntry(batch, Head(items), r.value) EXCEPT
                            !.entries = CollectionSet(@, r.value.id, r.value)],
                         g, Tail(items), Append(done, r.value))

NoLogs == [webhooks |-> <<>>, integrations |-> <<>>, entries |-> <<>>]

\* what the constructor leaves once the loop over audit_log_entries has ended
Constructed(filled, us) ==
  [ok |-> filled.ok, users |-> us, made |-> filled.made,
   logs |-> IF filled.ok THEN filled.logs ELSE NoLogs]

\* new GuildAuditLogs(guild, d): ok is FALSE when the constructor throws; users is
\* the client's user cache as the constructor leaves it either way
GuildAuditLogs(d) ==
  LET us == IF Truthy(d.users) THEN NewUsers(users, d.users.items) ELSE users
      g == GuildContext(us)
      hooks == IF Truthy(d.webhooks) THEN WebhooksOf(d.webhooks.items, <<>>) ELSE <<>>
      ints == IF Truthy(d.integrations)
              THEN IntegrationsOf(d.integrations.items, <<>>, g) ELSE <<>>
      batch == [webhooks |-> hooks, integrations |-> ints, entries |-> <<>>]
  IN IF Nullish(d.audit_log_entries)
     THEN [ok |-> FALSE, users |-> us, made |-> <<>>, logs |-> NoLogs]
     ELSE Constructed(EntriesOf(batch, g, d.audit_log_entries.items, <<>>), us)

(***************************************************************************)
(* The inputs                                                              *)
(***************************************************************************)
MaxChanges == 2
MaxEntries == 3
MaxUsers == 1
MaxAux == 1
MaxCode == 100
CodeMargin == 3

SeqsUpTo(S, n) == UNION {[1..k -> S] : k \in 0..n}

IdValues == {Str("A"), Str("B")}

TargetIds == {Undefined} \cup IdValues

ChangePool ==
  {[key |-> "name", old_value |-> Undefined, new_value |-> Str("hook")],
   [key |-> "name", old_value |-> Str("old"), new_value |-> Undefined],
   [key |-> "name", old_value |-> Str("old"), new_value |-> Bool(FALSE)],
   [key |-> "id", old_value |-> Undefined, new_value |-> Str("B")]}

ChangeLists == {Undefined} \cup {Arr(c) : c \in SeqsUpTo(ChangePool, MaxChanges)}

BasicChangeLists ==
  {Undefined, Arr(<<>>),
   Arr(<<[key |-> "name", old_value |-> Str("old"), new_value |-> Str("hook")]>>),
   Arr(<<[key |-> "name", old_value |-> Undefined, new_value |-> Str("hook")],
         [key |-> "id", old_value |-> Undefined, new_value |-> Str("B")]>>)}

\* every list where the target is synthesized from the changes, a few elsewhere
ChangesFor(a) ==
  IF LessThan(a, 40) \/ (LessThan(a, 80) /\ ~LessThan(a, 60))
  THEN BasicChangeLists ELSE ChangeLists

ChannelCount == {Obj([channel_id |-> Str("A"), count |-> Str("5")]),
                 Obj([channel_id |-> Str("B"), count |-> Str("12")])}

OptionsFor(a) ==
  {Undefined} \cup
  (IF a = Actions.MEMBER_PRUNE
     THEN {Obj([members_removed |-> Str("3"), delete_member_days |-> Str("7")])}
   ELSE IF a \in {Actions.MEMBER_MOVE, Actions.MESSAGE_DELETE, Actions.MESSAGE_BULK_DELETE}
     THEN ChannelCount
   ELSE IF a \in {Actions.MESSAGE_PIN, Actions.MESSAGE_UNPIN}
     THEN {Obj([channel_id |-> Str("A"), message_id |-> Str("M")]),
           Obj([channel_id |-> Str("B"), message_id |-> Str("M")])}
   ELSE IF a = Actions.MEMBER_DISCONNECT
     THEN {Obj([count |-> Str("5")])}
   ELSE IF a \in {Actions.CHANNEL_OVERWRITE_CREATE, Actions.CHANNEL_OVERWRITE_UPDATE,
                   Actions.CHANNEL_OVERWRITE_DELETE}
     THEN {Obj([type |-> Str("member"), id |-> Str("A")]),
           Obj([type |-> Str("role"), id |-> Str("B"), role_name |-> Str("mods")]),
           Obj([type |-> Str("other"), id |-> Str("B")])}
   ELSE {Obj([channel_id |-> Str("A"), count |-> Str("5")])})

TableCodes == {Actions[k] : k \in DOMAIN Actions}

\* the action codes of the batches: the table, and two codes beyond every range
BatchCodes == TableCodes \cup {Num(90), Num(9999)}

RawRecord(a, tid, ch, op, id, rs) ==
  [action_type |-> a, target_id |-> tid, changes |-> ch, options |-> op,
   id |-> id, user_id |-> Str("A"), reason |-> rs]

RawRecordsOf(a) ==
  {RawRecord(a, tid, ch, op, Str("1"), Undefined) :
     tid \in TargetIds, ch \in ChangesFor(a), op \in OptionsFor(a)}

\* every shape of one raw record
RawRecords == UNION {RawRecordsOf(a) : a \in BatchCodes}

EntryIds == {Str("1"), Str("2")}

\* a few records that differ in more than their id, for the batches of several
SmallRecords ==
  {RawRecord(Actions.ROLE_CREATE, Str("A"), Undefined, Undefined, id, Str("spam")) :
     id \in EntryIds}
  \cup
  {RawRecord(Actions.WEBHOOK_CREATE, Str("B"),
             Arr(<<[key |-> "name", old_value |-> Undefined, new_value |-> Str("hook")]>>),
             Undefined, id, Undefined) : id \in EntryIds}
  \cup
  {RawRecord(Actions.INTEGRATION_DELETE, Str("B"), Arr(<<>>), Undefined, id, Str("")) :
     id \in EntryIds}

UserPayloads == {Obj([id |-> i, username |-> Str("u")]) : i \in IdValues}

HookPayloads == {Obj([id |-> i, name |-> Str("cached")]) : i \in IdValues}

IntegrationPayloads == {Obj([id |-> i, type |-> Str("twitch")]) : i \in IdValues}

Arrays(S, n) == {Undefined} \cup {Arr(q) : q \in SeqsUpTo(S, n)}

Batch(us, hooks, ints, items) ==
  [users |-> us, webhooks |-> hooks, integrations |-> ints, audit_log_entries |-> items]

\* one record of any shape, without and with the auxiliary arrays
EntryInputs ==
  {Batch(Undefined, Undefined, Undefined, Arr(<<r>>)) : r \in RawRecords}
  \cup
  {Batch(Arr(<<Obj([id |-> Str("B"), username |-> Str("u")])>>),
         Arr(<<Obj([id |-> Str("A"), name |-> Str("cached")])>>),
         Arr(<<Obj([id |-> Str("A"), type |-> Str("twitch")])>>),
         Arr(<<r>>)) : r \in RawRecords}

\* any auxiliary arrays, with one of the few records
AuxInputs ==
  {Batch(us, hooks, ints, Arr(<<r>>)) :
     us \in Arrays(UserPayloads, MaxUsers), hooks \in Arrays(HookPayloads, MaxAux),
     ints \in Arrays(IntegrationPayloads, MaxAux), r \in SmallRecords}

\* several of the few records, and a batch without audit_log_entries
OrderInputs ==
  {Batch(Undefined, Undefined, Undefined, Arr(q)) : q \in SeqsUpTo(SmallRecords, MaxEntries)}
  \cup {Batch(Undefined, Undefined, Undefined, Undefined)}

Codes ==
  {Num(n) : n \in (0 - CodeMargin)..MaxCode} \cup {Num(9999), Null, Undefined}

(***************************************************************************)
(* Util.splitMessage                                                       *)
(*                                                                         *)
(* The strings of splitMessage are cut and measured, so a string is here   *)
(* the sequence of its characters, under a tag of its own.                 *)
(***************************************************************************)
Text(chars) == [t |-> "string", chars |-> chars]

\* the defaults of the options
DefaultMaxLength == 1950

DefaultChar == <<"\n">>

\* var x = _options.x === undefined ? dflt : _options.x
OptionOr(v, dflt) == IF v = Undefined THEN dflt ELSE v

\* the rest of text.split(sep) from position p on, for a separator that is not
\* empty; cur is the piece collected so far
RECURSIVE SplitAt(_, _, _, _)
SplitAt(text, sep, p, cur) ==
  IF p > Len(text) THEN <<cur>>
  ELSE IF p + Len(sep) - 1 <= Len(text) /\ SubSeq(text, p, p + Len(sep) - 1) = sep
       THEN <<cur>> \o SplitAt(text, sep, p + Len(sep), <<>>)
       ELSE SplitAt(text, sep, p + 1, Append(cur, text[p]))

\* String.prototype.split with a string separator: the empty separator cuts
\* between all characters (and the empty text into no piece at all)
StringSplit(text, sep) ==
  IF Len(sep) = 0
  THEN [i \in 1..Len(text) |-> <<text[i]>>]
  ELSE SplitAt(text, sep, 1, <<>>)

\* one round of the loop body for the piece: messages[msg] is the last message
Closed(messages, append, prepend) ==
  Append([messages EXCEPT ![Len(messages)] = @ \o append], prepend)

Glued(messages, char, prepend, piece) ==
  [messages EXCEPT ![Len(messages)] =
     @ \o (IF Len(@) > 0 /\ @ # prepend THEN char ELSE <<>>) \o piece]

\* for (let i = 0; i < splitText.length; i++) { ... } from index i on
RECURSIVE SplitLoop(_, _, _, _, _, _, _)
SplitLoop(splitText, i, messages, maxLength, char, prepend, append) ==
  IF i > Len(splitText) THEN messages
  ELSE IF Len(messages[Len(messages)]) + Len(splitText[i]) + 1 > maxLength
       THEN SplitLoop(splitText, i + 1,
                      Glued(Closed(messages, append, prepend), char, prepend, splitText[i]),
                      maxLength, char, prepend, append)
       ELSE SplitLoop(splitText, i + 1, Glued(messages, char, prepend, splitText[i]),
                      maxLength, char, prepend, append)

\* the body of splitMessage once the options have their defaults
SplitWith(text, maxLength, char, prepend, append) ==
  IF Len(text) <= maxLength THEN Ok(Text(text))
  ELSE IF \E k \in 1..Len(StringSplit(text, char)) :
            Len(StringSplit(text, char)[k]) > maxLength
       THEN Throw
       ELSE Ok(Arr(SplitLoop(StringSplit(text, char), 1, <<<<>>>>,
                             maxLength, char, prepend, append)))

\* Util.splitMessage(text, options); the messages of the returned array are
\* kept as bare character sequences
splitMessage(text, options) ==
  SplitWith(text,
            OptionOr(options.maxLength, Num(DefaultMaxLength)).n,
            OptionOr(options.char, Text(DefaultChar)).chars,
            OptionOr(options.prepend, Text(<<>>)).chars,
            OptionOr(options.append, Text(<<>>)).chars)

MaxText == 4
MaxLength == 3
MaxSep == 2
MaxAffix == 1

Alphabet == {"a", "\n"}

Texts == SeqsUpTo(Alphabet, MaxText)

SplitOptions ==
  [maxLength : {Undefined} \cup {Num(n) : n \in 0..MaxLength},
   char : {Undefined} \cup {Text(c) : c \in SeqsUpTo(Alphabet, MaxSep)},
   prepend : {Undefined} \cup {Text(c) : c \in SeqsUpTo(Alphabet, MaxAffix)},
   append : {Undefined} \cup {Text(c) : c \in SeqsUpTo(Alphabet, MaxAffix)}]

(***************************************************************************)
(* The state machine                                                       *)
(***************************************************************************)
Cached(class) == <<[key |-> Str("A"), value |-> Entity(class, "cache", [id |-> Str("A")])]>>

NoData == Batch(Undefined, Undefined, Undefined, Undefined)

NoOptions ==
  [maxLength |-> Undefined, char |-> Undefined, prepend |-> Undefined, append |-> Undefined]

NotSplit == [done |-> FALSE, text |-> <<>>, options |-> NoOptions, result |-> Throw]

NotClassified ==
  [done |-> FALSE, code |-> Undefined, targetType |-> Undefined, actionType |-> Undefined]

Init ==
  /\ users = Cached("User")
  /\ guilds = Cached("Guild")
  /\ channels = Cached("Channel")
  /\ clientChannels = Cached("Channel")
  /\ roles = Cached("Role")
  /\ members = Cached("GuildMember")
  /\ emojis = Cached("Emoji")
  /\ data = NoData
  /\ logs = NoLogs
  /\ made = <<>>
  /\ pc = "idle"
  /\ pending = {}
  /\ classified = NotClassified
  /\ splitCall = NotSplit

\* GuildAuditLogs.build(guild, d): the constructor runs at once; the promise of
\* Promise.all over the targets of the entries is left pending
Build(d) ==
  /\ pc = "idle"
  /\ LET r == GuildAuditLogs(d)
     IN /\ data' = d
        /\ users' = r.users
        /\ made' = r.made
        /\ logs' = r.logs
        /\ pc' = IF r.ok THEN "awaiting" ELSE "threw"
        /\ pending' = IF r.ok THEN 1..Len(r.logs.entries) ELSE {}
  /\ UNCHANGED <<guilds, channels, clientChannels, roles, members, emojis, classified, splitCall>>

\* a target that is no thenable settles in a microtask, in the order of the array
SettleTarget ==
  /\ pc = "awaiting"
  /\ pending # {}
  /\ pending' = pending \ {CHOOSE i \in pending : \A j \in pending : i <= j}
  /\ UNCHANGED <<caches, data, logs, made, pc, classified, splitCall>>

\* a variant of BuildThen that does not wait for the targets
BuildThenEarly ==
  /\ pc = "awaiting"
  /\ pc' = "returned"
  /\ UNCHANGED <<caches, data, logs, made, pending, classified, splitCall>>

\* .then(() => logs) of Promise.all: runs once every element has settled
BuildThen ==
  /\ pc = "awaiting"
  /\ pending = {}
  /\ pc' = "returned"
  /\ UNCHANGED <<caches, data, logs, made, pending, classified, splitCall>>

Next ==
  \/ \E d \in EntryInputs : Build(d)
  \/ \E d \in AuxInputs : Build(d)
  \/ \E d \in OrderInputs : Build(d)
  \/ SettleTarget
  \/ BuildThen

Spec == Init /\ [][Next]_vars

\* one call of the two static classifiers
Classify(code) ==
  /\ classified' = [done |-> TRUE, code |-> code,
                    targetType |-> targetType(code), actionType |-> actionType(code)]
  /\ UNCHANGED <<caches, data, logs, made, pc, pending, splitCall>>

NextClassify == \E code \in Codes : Classify(code)

SpecClassify == Init /\ [][NextClassify]_vars

\* one call of Util.splitMessage; a behaviour makes a single call
SplitMessage(text, options) ==
  /\ ~splitCall.done
  /\ splitCall' = [done |-> TRUE, text |-> text, options |-> options,
                   result |-> splitMessage(text, options)]
  /\ UNCHANGED <<caches, data, logs, made, pc, pending, classified>>

NextSplit == \E text \in Texts : \E options \in SplitOptions : SplitMessage(text, options)

SpecSplit == Init /\ [][NextSplit]_vars

(***************************************************************************)
(* The properties                                                          *)
(***************************************************************************)
\* the raw records of the batch handed to the constructor
Items ==
  IF data.audit_log_entries.t = "array" THEN data.audit_log_entries.items ELSE <<>>

\* the constructor has returned a batch
Built == pc \in {"awaiting", "returned"}

\* the constructor of the i-th record threw
ThrewAt(i) == pc = "threw" /\ Len(made) = i - 1 /\ i <= Len(Items)

SetOf(seq) == {seq[i] : i \in 1..Len(seq)}

\* C1: a raw record whose action_type is no code of the action table (9999, say),
\* with or without target_id, changes or options, never makes its constructor
\* raise: it yields an entry with actionType ALL and no target family
C1_UnmappedCodeNeverRaises ==
  \A i \in 1..Len(Items) :
    Items[i].action_type \notin TableCodes =>
      /\ ~ThrewAt(i)
      /\ i <= Len(made) =>
           /\ made[i].actionType = Str("ALL")
           /\ made[i].targetType = Null

\* the 35 codes of the action table
KnownCodes == TableCodes \ {Null}

VerbCodes(verb) ==
  CASE verb = "CREATE" -> {Num(n) : n \in {10, 13, 23, 28, 30, 40, 50, 60, 74, 80}}
    [] verb = "DELETE" ->
         {Num(n) : n \in {12, 15, 20, 21, 22, 27, 32, 42, 52, 62, 72, 73, 75, 82}}
    [] verb = "UPDATE" -> {Num(n) : n \in {1, 11, 14, 24, 25, 26, 31, 41, 51, 61, 81}}

Verbs == {"CREATE", "DELETE", "UPDATE"}

\* C2: actionType classifies by exact membership: the CREATE, DELETE and UPDATE
\* code lists are pairwise disjoint, each of the 35 codes of the table is in
\* exactly one of them and gets that verb (GUILD_UPDATE = 1 gives UPDATE), and
\* every other value, null included, gets ALL
C2_ActionTypeByMembership ==
  /\ SetOf(CreateActions) \cap SetOf(DeleteActions) = {}
  /\ SetOf(CreateActions) \cap SetOf(UpdateActions) = {}
  /\ SetOf(DeleteActions) \cap SetOf(UpdateActions) = {}
  /\ Cardinality(KnownCodes) = 35
  /\ SetOf(CreateActions) \cup SetOf(DeleteActions) \cup SetOf(UpdateActions) = KnownCodes
  /\ classified.done =>
       /\ \A verb \in Verbs :
            classified.code \in VerbCodes(verb) =>
              /\ classified.actionType = Str(verb)
              /\ \A other \in Verbs \ {verb} : classified.code \notin VerbCodes(other)
       /\ classified.code \in KnownCodes => \E verb \in Verbs : classified.code \in VerbCodes(verb)
       /\ classified.code \notin KnownCodes => classified.actionType = Str("ALL")
       /\ classified.code = Actions.GUILD_UPDATE => classified.actionType = Str("UPDATE")

C2_Witness ==
  /\ classified.done
  /\ classified.code = Actions.GUILD_UPDATE
  /\ classified.actionType = Str("UPDATE")

\* the families in the order of their ranges of ten codes
Families ==
  <<Targets.GUILD, Targets.CHANNEL, Targets.USER, Targets.ROLE, Targets.INVITE,
    Targets.WEBHOOK, Targets.EMOJI, Targets.MESSAGE, Targets.INTEGRATION>>

\* the family of the range of ten codes that holds n, none from 90 on
RangeFamily(n) ==
  IF n < 0 THEN Targets.GUILD
  ELSE IF n \div 10 < Len(Families) THEN Families[(n \div 10) + 1]
  ELSE Null

\* C3: targetType buckets a code by half-open ranges in ascending order: below 10
\* GUILD, below 20 CHANNEL, and so on up to below 90 INTEGRATION; a code of 90 or
\* more has no family; every code of the table gets the family of its range
C3_TargetTypeByRange ==
  (classified.done /\ classified.code.t = "number") =>
    /\ classified.targetType = RangeFamily(classified.code.n)
    /\ classified.code.n >= 90 => classified.targetType = Null
    /\ classified.code.n < 10 => classified.targetType = Targets.GUILD

C3_Witness ==
  /\ classified.done
  /\ classified.code = Actions.MESSAGE_BULK_DELETE
  /\ classified.targetType = Targets.MESSAGE

\* the target is an entity (of a cache, of the batch or synthesized) or a plain
\* object that carries an id
EntityOrIdObject(target) ==
  \/ target.t = "entity"
  \/ target.t = "object" /\ "id" \in DOMAIN target.fields

\* C4 as stated: the target of a constructed entry is null (or undefined) only
\* when the record supplies no target_id and no changes; otherwise it is an entity
\* or a plain object with an id
C4_NullOnlyWithoutIdAndChanges ==
  \A i \in 1..Len(made) :
    IF Nullish(made[i].target)
    THEN Items[i].target_id = Undefined /\ Items[i].changes = Undefined
    ELSE EntityOrIdObject(made[i].target)

\* the target of the record is looked up in the client's user or guild cache, and
\* that cache has no entity under target_id
LookupMisses(d, entry) ==
  \/ /\ entry.targetType = Targets.USER
     /\ ~CollectionHas(users, d.target_id)
  \/ /\ entry.targetType = Targets.MESSAGE
     /\ d.action_type # Actions.MESSAGE_BULK_DELETE
     /\ ~CollectionHas(users, d.target_id)
  \/ /\ entry.targetType = Targets.GUILD
     /\ ~CollectionHas(guilds, d.target_id)

\* C4 as amended: the target of a constructed entry is null or undefined only when
\* the record supplies no target_id, or when the target is looked up in the
\* client's user or guild cache (USER and GUILD families, MESSAGE family other than
\* MESSAGE_BULK_DELETE) and that cache holds no entity under target_id; otherwise
\* it is an entity or a plain object with an id
C4_NullOnlyWithoutIdOrOnMiss ==
  \A i \in 1..Len(made) :
    IF Nullish(made[i].target)
    THEN Items[i].target_id = Undefined \/ LookupMisses(Items[i], made[i])
    ELSE EntityOrIdObject(made[i].target)

C4_Witness ==
  \E i \in 1..Len(made) :
    /\ made[i].targetType = Targets.USER
    /\ Items[i].target_id = Str("B")
    /\ Items[i].changes # Undefined
    /\ made[i].target = Undefined

\* the last change of the list under the key
LastChange(changes, key) ==
  changes[CHOOSE j \in 1..Len(changes) :
            /\ changes[j].key = key
            /\ \A k \in (j + 1)..Len(changes) : changes[k].key # key]

\* every key of the changes is a field of the data, set from its last change
ChangeKeysSet(fields, changes) ==
  \A j \in 1..Len(changes) :
    /\ changes[j].key \in DOMAIN fields
    /\ fields[changes[j].key] =
         Or(LastChange(changes, changes[j].key).new_value,
            LastChange(changes, changes[j].key).old_value)

\* the target of the entry is a webhook the entry constructor made
Synthesized(entry, class) ==
  /\ entry.target.t = "entity"
  /\ entry.target.class = class
  /\ entry.target.origin = "entry"

\* C5 as stated: the target of a WEBHOOK-family record is the batch's cached
\* webhook under target_id if there is one; otherwise, for any changes list, a
\* webhook synthesized from data whose id is target_id and whose guild id is the
\* guild's, with every change key set from the flattened changes
C5_WebhookTarget ==
  Built =>
    \A i \in 1..Len(made) :
      made[i].targetType = Targets.WEBHOOK =>
        IF CollectionHas(logs.webhooks, Items[i].target_id)
        THEN made[i].target = CollectionGet(logs.webhooks, Items[i].target_id)
        ELSE /\ Synthesized(made[i], "Webhook")
             /\ Prop(made[i].target, "id") = Items[i].target_id
             /\ Prop(made[i].target, "guild_id") = GuildId
             /\ ChangeKeysSet(made[i].target.fields, Items[i].changes.items)

HasKey(changes, key) == \E j \in 1..Len(changes) : changes[j].key = key

\* C5 as amended: as stated, but the id is target_id only when no change is keyed
\* id, and the guild id is the guild's only when no change is keyed guild_id: a
\* change under one of these keys overrides it like any other key
C5_WebhookTargetUnlessOverridden ==
  Built =>
    \A i \in 1..Len(made) :
      made[i].targetType = Targets.WEBHOOK =>
        IF CollectionHas(logs.webhooks, Items[i].target_id)
        THEN made[i].target = CollectionGet(logs.webhooks, Items[i].target_id)
        ELSE /\ Synthesized(made[i], "Webhook")
             /\ ~HasKey(Items[i].changes.items, "id") =>
                  Prop(made[i].target, "id") = Items[i].target_id
             /\ ~HasKey(Items[i].changes.items, "guild_id") =>
                  Prop(made[i].target, "guild_id") = GuildId
             /\ ChangeKeysSet(made[i].target.fields, Items[i].changes.items)

C5_Witness ==
  /\ Built
  /\ \E i \in 1..Len(made) :
       /\ Items[i].action_type = Actions.WEBHOOK_CREATE
       /\ Items[i].target_id = Str("B")
       /\ Items[i].changes =
            Arr(<<[key |-> "name", old_value |-> Undefined, new_value |-> Str("hook")]>>)
       /\ ~CollectionHas(logs.webhooks, Str("B"))
       /\ Synthesized(made[i], "Webhook")
       /\ made[i].target.fields =
            [id |-> Str("B"), guild_id |-> GuildId, name |-> Str("hook")]

\* the ids of the records are pairwise distinct
DistinctIds == \A i, j \in 1..Len(Items) : Items[i].id = Items[j].id => i = j

\* the last entry constructed from a record with this id
LastMade(id) ==
  made[CHOOSE i \in 1..Len(made) :
         /\ made[i].id = id
         /\ \A j \in (i + 1)..Len(made) : made[j].id # id]

\* C6 as stated: once the batch is constructed, iterating its entries yields the
\* entries of the records of audit_log_entries in the order of the records,
\* whatever their ids
C6_EntriesInInputOrder ==
  Built => CollectionValues(logs.entries) = made

\* C6 as amended: the iteration order is the order of the records when their ids
\* are pairwise distinct; records that share an id leave one entry, the one of the
\* last of them
C6_EntriesInInputOrderIfDistinct ==
  Built =>
    /\ Len(made) = Len(Items)
    /\ DistinctIds => CollectionValues(logs.entries) = made
    /\ SetOf(CollectionKeys(logs.entries)) = {Items[i].id : i \in 1..Len(Items)}
    /\ \A k \in 1..Len(logs.entries) :
         /\ logs.entries[k].value = LastMade(logs.entries[k].key)
         /\ \A m \in 1..Len(logs.entries) :
              logs.entries[m].key = logs.entries[k].key => m = k

C6_Witness ==
  /\ Built
  /\ DistinctIds
  /\ Len(Items) >= 2
  /\ Items[1].id = Str("2")
  /\ Items[2].id = Str("1")
  /\ CollectionValues(logs.entries) = made

\* C7: build hands over the batch only once the target of every entry has
\* settled: the batch is never returned while a target is still pending
C7_ReturnedAfterAllSettled ==
  pc = "returned" => pending = {}

C7_Witness ==
  /\ pc = "returned"
  /\ Len(logs.entries) >= 2
  /\ pending = {}

\* C8: changes is null exactly when the record has no changes field; a list that
\* is present, the empty one included, gives a list of the same length whose i-th
\* element is {key, old: old_value, new: new_value} of the i-th raw change
C8_ChangesMapped ==
  \A i \in 1..Len(made) :
    /\ made[i].changes = Null <=> Items[i].changes = Undefined
    /\ Items[i].changes # Undefined =>
         /\ made[i].changes.t = "array"
         /\ Len(made[i].changes.items) = Len(Items[i].changes.items)
         /\ \A j \in 1..Len(Items[i].changes.items) :
              /\ made[i].changes.items[j].key = Items[i].changes.items[j].key
              /\ made[i].changes.items[j].old = Items[i].changes.items[j].old_value
              /\ made[i].changes.items[j].new = Items[i].changes.items[j].new_value

C8_Witness ==
  \E i \in 1..Len(made) :
    /\ Items[i].changes = Arr(<<>>)
    /\ made[i].changes = Arr(<<>>)

\* the number a count string of the inputs stands for
CountValue(count) ==
  CASE count = Str("5") -> Num(5)
    [] count = Str("12") -> Num(12)

\* C9: the target of a MESSAGE_BULK_DELETE record is the guild's cached channel
\* under target_id, or {id: target_id} if there is none, never a user; the target
\* of any other MESSAGE-family record is what the client's user cache holds under
\* target_id; the extra of MESSAGE_BULK_DELETE with options {channel_id, count} is
\* {channel: the cached channel or {id: channel_id}, count: the number of count}
C9_MessageTarget ==
  \A i \in 1..Len(made) :
    made[i].targetType = Targets.MESSAGE =>
      IF Items[i].action_type = Actions.MESSAGE_BULK_DELETE
      THEN /\ made[i].target =
                IF CollectionHas(channels, Items[i].target_id)
                THEN CollectionGet(channels, Items[i].target_id)
                ELSE Obj([id |-> Items[i].target_id])
           /\ ~(made[i].target.t = "entity" /\ made[i].target.class = "User")
           /\ made[i].extra =
                Obj([channel |->
                       IF CollectionHas(channels, Items[i].options.fields["channel_id"])
                       THEN CollectionGet(channels, Items[i].options.fields["channel_id"])
                       ELSE Obj([id |-> Items[i].options.fields["channel_id"]]),
                     count |-> CountValue(Items[i].options.fields["count"])])
      ELSE made[i].target =
             IF CollectionHas(users, Items[i].target_id)
             THEN CollectionGet(users, Items[i].target_id)
             ELSE Undefined

C9_Witness ==
  \E i \in 1..Len(made) :
    /\ Items[i].action_type = Actions.MESSAGE_BULK_DELETE
    /\ Items[i].target_id = Str("A")
    /\ Items[i].options = Obj([channel_id |-> Str("A"), count |-> Str("5")])
    /\ made[i].target = Entity("Channel", "cache", [id |-> Str("A")])
    /\ made[i].extra =
         Obj([channel |-> Entity("Channel", "cache", [id |-> Str("A")]), count |-> Num(5)])

\* the ids of the elements of an auxiliary array of the batch, none if it is absent
IdsOf(array) ==
  IF array.t = "array" THEN {Prop(array.items[i], "id") : i \in 1..Len(array.items)} ELSE {}

\* C10: constructing a batch leaves the guild, channel, role, member and emoji
\* caches as they were and the user cache as it was but for one upsert per element
\* of users; resolving the entries writes to neither cache of the batch: the keys
\* of webhooks are the ids of the webhooks array and the keys of integrations the
\* ids of the integrations array, also when an entry synthesized a stand-in
C10_CachesFramed ==
  /\ guilds = Cached("Guild")
  /\ channels = Cached("Channel")
  /\ clientChannels = Cached("Channel")
  /\ roles = Cached("Role")
  /\ members = Cached("GuildMember")
  /\ emojis = Cached("Emoji")
  /\ SetOf(CollectionKeys(users)) = SetOf(CollectionKeys(Cached("User"))) \cup IdsOf(data.users)
  /\ Len(users) = Cardinality(SetOf(CollectionKeys(users)))
  /\ \A k \in 1..Len(Cached("User")) : users[k] = Cached("User")[k]
  /\ Built =>
       /\ SetOf(CollectionKeys(logs.webhooks)) = IdsOf(data.webhooks)
       /\ Len(logs.webhooks) = Cardinality(IdsOf(data.webhooks))
       /\ SetOf(CollectionKeys(logs.integrations)) = IdsOf(data.integrations)
       /\ Len(logs.integrations) = Cardinality(IdsOf(data.integrations))

C10_Witness ==
  /\ Built
  /\ IdsOf(data.users) = {Str("B")}
  /\ IdsOf(data.webhooks) = {Str("A")}
  /\ \E i \in 1..Len(made) :
       /\ Synthesized(made[i], "Webhook")
       /\ Items[i].target_id = Str("B")
  /\ SetOf(CollectionKeys(logs.webhooks)) = {Str("A")}
  /\ SetOf(CollectionKeys(users)) = {Str("A"), Str("B")}

(***************************************************************************)
(* Util.splitMessage                                                       *)
(***************************************************************************)
\* the values the call works with, after the defaults
GivenMaxLength == OptionOr(splitCall.options.maxLength, Num(DefaultMaxLength)).n

GivenChar == OptionOr(splitCall.options.char, Text(DefaultChar)).chars

GivenPrepend == OptionOr(splitCall.options.prepend, Text(<<>>)).chars

GivenAppend == OptionOr(splitCall.options.append, Text(<<>>)).chars

\* C11: splitMessage returns the text itself when its length is at most
\* maxLength; otherwise, whatever the text, the split character, prepend and
\* append, if it returns and does not throw then every chunk of the returned
\* array has length at most maxLength
C11_ChunksWithinMaxLength ==
  splitCall.done =>
    IF Len(splitCall.text) <= GivenMaxLength
    THEN splitCall.result = Ok(Text(splitCall.text))
    ELSE splitCall.result.ok =>
           /\ splitCall.result.value.t = "array"
           /\ \A k \in 1..Len(splitCall.result.value.items) :
                Len(splitCall.result.value.items[k]) <= GivenMaxLength

(***************************************************************************)
(* The flattened changes of a synthesized target                           *)
(***************************************************************************)
\* the value the projection is said to give a change: new ?? old
NewElseOld(c) == IF Nullish(c.new_value) THEN c.old_value ELSE c.new_value

\* C12: whenever the target of an entry is synthesized from its changes (WEBHOOK,
\* INVITE and INTEGRATION families), every change key of the synthesized data
\* holds the new value of its change whenever there is one, be it false, 0 or
\* the empty string, and the old value only when the change has no new value
C12_FlattenedPrefersNewValue ==
  Built =>
    \A i \in 1..Len(made) :
      (\E class \in {"Webhook", "Invite", "Integration"} : Synthesized(made[i], class)) =>
        \A j \in 1..Len(Items[i].changes.items) :
          Prop(made[i].target, Items[i].changes.items[j].key) =
            NewElseOld(LastChange(Items[i].changes.items, Items[i].changes.items[j].key))

====
